---- MODULE Spec2Model ----
(***************************************************************************)
(* t-pane: an MCP server that runs shell commands in tmux panes.           *)
(*                                                                         *)
(* The module models three parts of src/unnamed/part_000 (lines 1-966,     *)
(* the latest version of the server):                                      *)
(*   - the pane registry   (findOrCreatePane)         specification SpecPane*)
(*   - the capture protocol (executeInPane)           specification SpecExec*)
(*   - the background task tracker (launch/check)     specification SpecTask*)
(* tmux itself is the environment: its documented command semantics are    *)
(* modelled next to the code that issues each command line.                *)
(***************************************************************************)
EXTENDS Integers, Sequences, FiniteSets, TLC

VARIABLES
    \* ---- tmux server state (environment of the pane registry) ----
    wins,       \* wins[s]: indexes of the windows of session s (one pane each)
    curw,       \* curw[s]: index of the current window of session s
    lastw,      \* lastw[s]: stack of previously current windows of session s
    env,        \* env[s]: set of directory hashes h with CLAUDE_DIR_h=1 in session s
    \* ---- server processes (pane registry) ----
    dir,        \* dir[p]: process.cwd() of server process p
    sess,       \* sess[p]: tmux session the process runs in ($TMUX)
    faults,     \* whether tmux command lines may fail in this run
    serial,     \* whether calls are issued one at a time, each awaited
    moves,      \* number of events so far: user actions and failed tmux commands
    cache,      \* cache[p]: paneIdsByDirectory.get(dir[p]) or NoPane
    pc,         \* pc[p]: position of p's findOrCreatePane call
    cur,        \* cur[p]: local currentPaneId
    newp,       \* newp[p]: local newPaneId
    ret,        \* ret[p]: outcome of the last finished call (NoPane: none yet)
    how,        \* how[p]: path the last finished call returned by: "cache",
                \* "scan" (no cache entry), "rescan" (entry dropped), "create"
    \* ---- history of the pane registry ----
    first,      \* first[p]: pane returned by p's first call since it started,
                \* while that pane has stayed alive
    createdFor, \* createdFor[d]: live panes created by findOrCreatePane for d
    req,        \* req[p]: the requestedPaneName of the call of p, "" if none
    given,      \* the live panes that earlier calls have returned
    \* ---- the pane a command runs in, and its shell (capture protocol) ----
    style,      \* the shell's prompt: [glyph, path]
    buf,        \* scrollback and screen of the pane: a sequence of lines
    shell,      \* [busy, rest, queue]: output still to print, typed lines waiting
    \* ---- one executeInPane call at a time (capture protocol) ----
    xpc,        \* position of the call: "idle", "sent", "resend", "marked"
    xid,        \* number of calls so far; names the commandId of the current one
    xcmd,       \* the lines the command of the current call prints
    xstatus,    \* the exit status of the command of the current call
    xcapture,   \* captureOutput of the current call
    xsent,      \* key sequences ending in Enter that the current call has sent
    xfailed,    \* the step of the current call whose tmux command failed, or "none"
    xres,       \* result of the last finished call
    \* ---- the task directory (background task tracker) ----
    disk,       \* the task list in status.json; empty also when the file is absent
    files,      \* the output files that exist in the task directory
    clock,      \* the time stamps handed out so far
    alive,      \* whether the server process runs
    \* ---- launch_background_task calls and their timers, by task id ----
    launched,   \* number of launch_background_task calls so far
    lpc,        \* lpc[t]: position of the launch call of task t
    lnew,       \* lnew[t]: newTask of the launch call of task t
    ltasks,     \* ltasks[t]: the list `tasks` of the launch call of task t
    tpc,        \* tpc[t]: position of the timeout timer of task t
    ttasks,     \* ttasks[t]: the list `currentTasks` of the timer of task t
    tfired,     \* tfired[t]: the number of check calls begun when the timer fired, or -1
    \* ---- check_background_tasks calls, one at a time ----
    checks,     \* number of check_background_tasks calls so far
    cpc,        \* position of the current call: "idle", "loop"
    ctasks,     \* the list `tasks` of the current call
    ci,         \* the index the loop of the current call has reached
    cabsent,    \* ids of the running tasks whose file the current call found absent
    cfound,     \* ids of the running tasks whose file the current call found
    \* ---- the functions on text: checkForPrompt and the truncation of logCommand ----
    ptext,      \* the argument of checkForPrompt, as output.split('\n')
    pres,       \* what checkForPrompt returned for it
    lout,       \* entry.output of a logCommand call, as its sequence of characters
    llog,       \* the output that logCommand wrote for it
    lret        \* what the caller that awaited this logCommand call then returns

paneVars == <<wins, curw, lastw, env, moves, dir, sess, faults, serial, cache, pc, cur, newp,
              ret, how, first, createdFor, req, given>>

execVars == <<style, buf, shell, xpc, xid, xcmd, xstatus, xcapture, xsent, xfailed, xres>>

taskVars == <<disk, files, clock, alive, launched, lpc, lnew, ltasks, tpc, ttasks, tfired, checks, cpc,
              ctasks, ci, cabsent, cfound>>

textVars == <<ptext, pres, lout, llog, lret>>

vars == <<paneVars, execVars, taskVars, textVars>>

(***************************************************************************)
(* Bounds                                                                  *)
(***************************************************************************)
MaxWin == 2         \* window indexes 0..MaxWin in each session
MaxMoves == 2       \* events caused by the user: panes closed, windows selected,
                    \* server processes restarted
MaxCalls == 1       \* executeInPane calls in one run
MaxOut == 2         \* lines a command prints
ScreenRows == 3     \* height of the pane
MaxQueue == 1       \* typed lines that wait for the running command
MaxTasks == 1       \* launch_background_task calls in one run
MaxChecks == 1      \* check_background_tasks calls in one run

(***************************************************************************)
(* Pane addresses: session:window.pane                                     *)
(***************************************************************************)
Sessions == {"0", "10"}
Windows == 0..MaxWin
Dirs == {"/a", "/b"}
Procs == {"p1", "p2"}
TaskIds == 1..MaxTasks
OutFiles == {"a.md", "b.md"}     \* the output files of the task directory
LaunchFiles == {"b.md"}          \* the outputFile arguments of the launch calls

\* Every window of the model has a single pane, at pane index 0.
NoPane == [s |-> "-", w |-> 0, p |-> 0]
ErrPane == [s |-> "!", w |-> 0, p |-> 0]
Addr == [s : Sessions, w : Windows, p : {0}]

Live == {a \in Addr : a.w \in wins[a.s]}
PanesOfWindow(s, w) == {a \in Live : a.s = s /\ a.w = w}

\* The characters of a session name and of a decimal index.
SessChars(s) == IF s = "10" THEN <<"1", "0">> ELSE <<s>>
DigitChars(n) ==
    LET d == <<"0", "1", "2", "3", "4", "5", "6", "7", "8", "9">>
    IN IF n < 10 THEN <<d[n + 1]>> ELSE <<d[(n \div 10) + 1], d[(n % 10) + 1]>>

\* '#{session_name}:#{window_index}.#{pane_index}' as a sequence of characters.
Render(a) == SessChars(a.s) \o <<":">> \o DigitChars(a.w) \o <<".">> \o DigitChars(a.p)

\* Order of `tmux list-panes -a`: sessions by name, windows and panes by index.
Rank(a) == (IF a.s = "0" THEN 0 ELSE 1) * 10000 + a.w * 100 + a.p

\* getDirectoryHash: first 8 hex digits of sha256(dirPath).
getDirectoryHash(d) == IF d = "/a" THEN "a1b2c3d4" ELSE "e5f60718"

\* grep -F pattern: the lines that contain the pattern as a substring.
IsSubstring(pat, line) ==
    \E i \in 0..(Len(line) - Len(pat)) : SubSeq(line, i + 1, i + Len(pat)) = pat
GrepF(pat, lines) == {l \in lines : IsSubstring(pat, l)}

\* `tmux list-panes -F <address>` without -a or -s: the panes of the current
\* window of the caller's session only.
ListPanesCurrentWindow(s) == {Render(a) : a \in PanesOfWindow(s, curw[s])}

\* The liveness check of line 339: list-panes | grep -F storedPaneId.
StoredPaneListed(stored, s) == GrepF(Render(stored), ListPanesCurrentWindow(s)) # {}

\* The scan of lines 352-361: the first pane of `tmux list-panes -a` for which
\* `tmux show-environment -t <address> VAR` prints VAR=1.  The target of
\* show-environment is a session, so the address selects the pane's session.
AnyLive(h) == Live
Marked(h) == {a \in Live : h \in env[a.s]}
FirstMarked(h) == CHOOSE a \in Marked(h) : \A b \in Marked(h) : Rank(a) <= Rank(b)

\* `tmux new-window` takes the lowest free window index of the session.
FreeWindows(s) == Windows \ wins[s]
LowestFree(s) == CHOOSE w \in FreeWindows(s) : \A v \in FreeWindows(s) : w <= v

Push(stack, w) == <<w>> \o SelectSeq(stack, LAMBDA x : x # w)
Remove(stack, w) == SelectSeq(stack, LAMBDA x : x # w)

(***************************************************************************)
(* The parts at rest.  Each specification starts the other two parts at    *)
(* rest and never moves them.                                              *)
(***************************************************************************)
\* The result of a call that has not returned: a CommandExecution.
\* Next to the fields of the CommandExecution it records the tier that made
\* it, whether the pane had run everything typed at the last snapshot, whether
\* the call threw instead of returning and how many entries it handed to
\* logCommand.
NoResult == [output |-> <<<<>>>>, exitCode |-> 0, linesCaptuerd |-> 0, tier |-> 0,
             finished |-> FALSE, id |-> 0, threw |-> FALSE, logged |-> 0,
             requiresInteraction |-> FALSE, type |-> "undefined"]

\* A task directory without output files, before any call of this process.
NoTask == [id |-> 0, outputFile |-> "", status |-> "none", startTime |-> 0, endTime |-> 0]
\* The record of a task that an earlier server process has launched.
EarlierTask ==
    [id |-> 0, outputFile |-> "a.md", status |-> "running", startTime |-> 0, endTime |-> 0]
TaskAtRest(list) ==
    /\ disk = list
    /\ files = {}
    /\ clock = 0
    /\ alive = TRUE
    /\ launched = 0
    /\ lpc = [t \in TaskIds |-> "none"]
    /\ lnew = [t \in TaskIds |-> NoTask]
    /\ ltasks = [t \in TaskIds |-> <<>>]
    /\ tpc = [t \in TaskIds |-> "off"]
    /\ ttasks = [t \in TaskIds |-> <<>>]
    /\ tfired = [t \in TaskIds |-> -1]
    /\ checks = 0
    /\ cpc = "idle"
    /\ ctasks = <<>>
    /\ ci = 0
    /\ cabsent = {}
    /\ cfound = {}

\* No text has been handed to checkForPrompt or to logCommand.
NotChecked == [requiresInteraction |-> FALSE, type |-> "?", message |-> "?"]
NotLogged == <<"?">>
NotReturned == [output |-> <<>>, threw |-> FALSE, log |-> "?"]
TextAtRest ==
    /\ ptext = <<<<>>>>
    /\ pres = NotChecked
    /\ lout = <<>>
    /\ llog = NotLogged
    /\ lret = NotReturned

\* A pane that shows the prompt of its shell, below what an earlier command
\* has left there.
ExecAtRest(st, earlier) ==
    /\ style = st
    /\ buf = (IF st.path THEN <<<<"~/dir">>>> ELSE <<>>) \o
             (IF earlier
              THEN <<<<st.glyph, "cmd0">>, <<"out0.1">>>> \o
                   (IF st.path THEN <<<<"~/dir">>>> ELSE <<>>)
              ELSE <<>>) \o
             <<<<st.glyph>>>>
    /\ shell = [busy |-> FALSE, rest |-> <<>>, queue |-> <<>>, asks |-> FALSE, after |-> <<>>,
                fed |-> <<>>]
    /\ xpc = "idle"
    /\ xid = 0
    /\ xcmd = <<>>
    /\ xstatus = 0
    /\ xcapture = TRUE
    /\ xsent = 0
    /\ xfailed = "none"
    /\ xres = NoResult

(***************************************************************************)
(* Initial state of the pane registry: every session has window 0, no      *)
(* marker is set, every process has just started.  Process p1 serves /a in *)
(* session 0; p2 serves either directory in either session.                *)
(***************************************************************************)
InitPane ==
    /\ wins = [s \in Sessions |-> {0}]
    /\ curw = [s \in Sessions |-> 0]
    /\ lastw = [s \in Sessions |-> <<>>]
    /\ env = [s \in Sessions |-> {}]
    /\ moves = 0
    /\ dir \in {f \in [Procs -> Dirs] : f["p1"] = "/a"}
    /\ sess \in {f \in [Procs -> Sessions] : f["p1"] = "0"}
    /\ faults \in BOOLEAN
    /\ serial = TRUE
    /\ cache = [p \in Procs |-> NoPane]
    /\ pc = [p \in Procs |-> "idle"]
    /\ cur = [p \in Procs |-> NoPane]
    /\ newp = [p \in Procs |-> NoPane]
    /\ ret = [p \in Procs |-> NoPane]
    /\ how = [p \in Procs |-> "none"]
    /\ first = [p \in Procs |-> NoPane]
    /\ createdFor = [d \in Dirs |-> {}]
    /\ req = [p \in Procs |-> ""]
    /\ given = {}
    /\ ExecAtRest([glyph |-> "$", path |-> FALSE], FALSE)
    /\ TaskAtRest(<<>>)
    /\ TextAtRest

tmuxVars == <<wins, curw, lastw, env>>
constVars == <<dir, sess, faults, serial, req, execVars, taskVars, textVars>>
histVars == <<first, createdFor, given>>

\* The names a call may request: none (an ordinary command), or the name
\* task-<first 8 characters of the task id> of launch_background_task.
Requested == {"", "task"}

\* No call is in progress.
Quiet == \A p \in Procs : pc[p] = "idle"

\* A call returns value v by path h.
Return(p, v, h) ==
    /\ pc' = [pc EXCEPT ![p] = "idle"]
    /\ cur' = [cur EXCEPT ![p] = NoPane]
    /\ newp' = [newp EXCEPT ![p] = NoPane]
    /\ ret' = [ret EXCEPT ![p] = v]
    /\ how' = [how EXCEPT ![p] = h]
    /\ first' = [first EXCEPT ![p] =
                    IF @ # NoPane THEN @ ELSE IF v \in Live THEN v ELSE ErrPane]
    /\ given' = given \cup ({v} \cap Live)

\* The failure is swallowed and the call returns what it holds as the new pane.
ReturnAnyway(p) ==
    Return(p, newp[p], "create")

\* The call throws 'Failed to create pane' (line 393).
Throw(p) ==
    /\ pc' = [pc EXCEPT ![p] = "idle"]
    /\ cur' = [cur EXCEPT ![p] = NoPane]
    /\ newp' = [newp EXCEPT ![p] = NoPane]
    /\ ret' = [ret EXCEPT ![p] = ErrPane]
    /\ how' = [how EXCEPT ![p] = "error"]
    /\ UNCHANGED <<first, given>>

\* A tmux command line may fail only in runs with faults; a failure is an
\* event counted in moves.
Outcome == IF faults /\ moves < MaxMoves THEN {TRUE, FALSE} ELSE {TRUE}
Count(ok) == moves' = IF ok THEN moves ELSE moves + 1

\* findOrCreatePane(requestedPaneName) is called (lines 320-323).  The name is
\* "" in a call for an ordinary command; it is used only as the title of the
\* window that the call may create (line 375).
Call(p, name) ==
    /\ pc[p] = "idle"
    /\ serial => Quiet
    /\ pc' = [pc EXCEPT ![p] = "start"]
    /\ ret' = [ret EXCEPT ![p] = NoPane]
    /\ how' = [how EXCEPT ![p] = "none"]
    /\ req' = [req EXCEPT ![p] = name]
    /\ UNCHANGED <<tmuxVars, moves, dir, sess, faults, serial, execVars, taskVars, textVars,
                   cache, cur, newp, histVars>>

\* Lines 325-336: display-message prints the active pane of the current window
\* of the session; then the cache is consulted.
GetCurrent(p) ==
    /\ pc[p] = "start"
    /\ \E ok \in Outcome :
       \E a \in PanesOfWindow(sess[p], curw[sess[p]]) :
          LET c == IF ok THEN a ELSE NoPane
          IN /\ Count(ok)
             /\ cur' = [cur EXCEPT ![p] = c]
             /\ pc' = [pc EXCEPT ![p] =
                          IF cache[p] # NoPane /\ cache[p] # c THEN "check" ELSE "scan"]
    /\ UNCHANGED <<tmuxVars, constVars, cache, newp, ret, how, histVars>>

\* Lines 337-346: the liveness check of the cached pane.
CheckAlive(p) ==
    /\ pc[p] = "check"
    /\ \E ok \in Outcome :
          /\ Count(ok)
          /\ IF ok /\ StoredPaneListed(cache[p], sess[p])
             THEN /\ Return(p, cache[p], "cache")
                  /\ UNCHANGED cache
             ELSE /\ cache' = [cache EXCEPT ![p] = NoPane]
                  /\ pc' = [pc EXCEPT ![p] = "scan"]
                  /\ how' = [how EXCEPT ![p] = "dropped"]
                  /\ UNCHANGED <<cur, newp, ret, first, given>>
    /\ UNCHANGED <<tmuxVars, constVars, createdFor>>

\* Lines 349-370: the marker scan.
Scan(p) ==
    /\ pc[p] = "scan"
    /\ \E ok \in Outcome :
          LET h == getDirectoryHash(dir[p])
          IN /\ Count(ok)
             /\ IF ok /\ Marked(h) # {}
                THEN /\ cache' = [cache EXCEPT ![p] = FirstMarked(h)]
                     /\ Return(p, FirstMarked(h),
                               IF how[p] = "dropped" THEN "rescan" ELSE "scan")
                ELSE /\ pc' = [pc EXCEPT ![p] = "create"]
                     /\ UNCHANGED <<cache, cur, newp, ret, how, first, given>>
    /\ UNCHANGED <<tmuxVars, constVars, createdFor>>

\* Line 375: tmux new-window; the new window becomes the current one.
NewWindow(p) ==
    /\ pc[p] = "create"
    /\ \E ok \in Outcome :
          LET s == sess[p]
          IN /\ Count(ok)
             /\ IF ok
                THEN /\ FreeWindows(s) # {}
                     /\ wins' = [wins EXCEPT ![s] = @ \cup {LowestFree(s)}]
                     /\ curw' = [curw EXCEPT ![s] = LowestFree(s)]
                     /\ lastw' = [lastw EXCEPT ![s] = Push(lastw[s], curw[s])]
                     /\ pc' = [pc EXCEPT ![p] = "getnew"]
                     /\ UNCHANGED <<cur, newp, ret, how, first, given>>
                ELSE /\ Throw(p)
                     /\ UNCHANGED <<wins, curw, lastw>>
    /\ UNCHANGED <<env, constVars, cache, createdFor>>

\* Lines 378-379: display-message prints the address of the new pane, that is
\* of the active pane of the session's current window.
GetNew(p) ==
    /\ pc[p] = "getnew"
    /\ \E ok \in Outcome :
          /\ Count(ok)
          /\ IF ok
             THEN /\ \E a \in PanesOfWindow(sess[p], curw[sess[p]]) :
                        newp' = [newp EXCEPT ![p] = a]
                  /\ pc' = [pc EXCEPT ![p] = "setenv"]
                  /\ UNCHANGED <<cur, ret, how, first, given>>
             ELSE Throw(p)
    /\ UNCHANGED <<tmuxVars, constVars, cache, createdFor>>

\* Lines 381-386: set-environment (on the session), then the cache is set.
SetEnv(p) ==
    /\ pc[p] = "setenv"
    /\ \E ok \in Outcome :
          /\ Count(ok)
          /\ IF ok
             THEN /\ env' = [env EXCEPT ![sess[p]] = @ \cup {getDirectoryHash(dir[p])}]
                  /\ cache' = [cache EXCEPT ![p] = newp[p]]
                  /\ createdFor' = [createdFor EXCEPT ![dir[p]] =
                                       @ \cup ({newp[p]} \cap Live)]
                  /\ pc' = [pc EXCEPT ![p] = "last"]
                  /\ UNCHANGED <<cur, newp, ret, how, first, given>>
             ELSE /\ Throw(p)
                  /\ UNCHANGED <<env, cache, createdFor>>
    /\ UNCHANGED <<wins, curw, lastw, constVars>>

\* Lines 388-391: last-window, then the new pane is returned.
LastWindow(p) ==
    /\ pc[p] = "last"
    /\ \E ok \in Outcome :
          LET s == sess[p]
          IN /\ Count(ok)
             /\ IF ok /\ lastw[s] # <<>>
                THEN /\ curw' = [curw EXCEPT ![s] = Head(lastw[s])]
                     /\ lastw' = [lastw EXCEPT ![s] = Push(Tail(lastw[s]), curw[s])]
                     /\ Return(p, newp[p], "create")
                ELSE /\ Throw(p)
                     /\ UNCHANGED <<curw, lastw>>
    /\ UNCHANGED <<wins, env, constVars, cache, createdFor>>

\* The server process exits and is started again: the cache is lost.
Restart(p) ==
    /\ moves < MaxMoves
    /\ pc[p] = "idle"
    /\ serial => Quiet
    /\ ret[p] # NoPane
    /\ cache' = [cache EXCEPT ![p] = NoPane]
    /\ ret' = [ret EXCEPT ![p] = NoPane]
    /\ how' = [how EXCEPT ![p] = "none"]
    /\ first' = [first EXCEPT ![p] = NoPane]
    /\ moves' = moves + 1
    /\ UNCHANGED <<wins, curw, lastw, env, constVars, pc, cur, newp, createdFor, given>>

\* The user closes the pane of a window (kill-pane, exit): the window goes;
\* a session keeps at least one window.  References to the pane that the
\* history holds are forgotten.
UserKillPane(s, w) ==
    /\ moves < MaxMoves
    /\ moves' = moves + 1
    /\ serial => Quiet
    /\ w \in wins[s]
    /\ wins[s] # {w}
    /\ LET gone == [s |-> s, w |-> w, p |-> 0]
           rest == Remove(lastw[s], w)
       IN /\ wins' = [wins EXCEPT ![s] = @ \ {w}]
          /\ IF curw[s] = w
             THEN IF rest # <<>>
                  THEN /\ curw' = [curw EXCEPT ![s] = Head(rest)]
                       /\ lastw' = [lastw EXCEPT ![s] = Tail(rest)]
                  ELSE /\ \E v \in wins[s] \ {w} : curw' = [curw EXCEPT ![s] = v]
                       /\ lastw' = [lastw EXCEPT ![s] = rest]
             ELSE /\ curw' = curw
                  /\ lastw' = [lastw EXCEPT ![s] = rest]
          /\ first' = [p \in Procs |-> IF first[p] = gone THEN ErrPane ELSE first[p]]
          /\ ret' = [p \in Procs |-> IF ret[p] = gone THEN NoPane ELSE ret[p]]
          /\ createdFor' = [d \in Dirs |-> createdFor[d] \ {gone}]
          /\ given' = given \ {gone}
    /\ UNCHANGED <<env, constVars, cache, pc, cur, newp, how>>

\* The user selects another window.
UserSelectWindow(s, w) ==
    /\ moves < MaxMoves
    /\ moves' = moves + 1
    /\ serial => Quiet
    /\ w \in wins[s]
    /\ curw[s] # w
    /\ curw' = [curw EXCEPT ![s] = w]
    /\ lastw' = [lastw EXCEPT ![s] = Push(lastw[s], curw[s])]
    /\ UNCHANGED <<wins, env, constVars, cache, pc, cur, newp, ret, how, histVars>>

NextPane ==
    \/ \E p \in Procs, name \in Requested : Call(p, name)
    \/ \E p \in Procs : GetCurrent(p)
    \/ \E p \in Procs : CheckAlive(p)
    \/ \E p \in Procs : Scan(p)
    \/ \E p \in Procs : NewWindow(p)
    \/ \E p \in Procs : GetNew(p)
    \/ \E p \in Procs : SetEnv(p)
    \/ \E p \in Procs : LastWindow(p)
    \/ \E p \in Procs : Restart(p)
    \/ \E s \in Sessions, w \in Windows : UserKillPane(s, w)
    \/ \E s \in Sessions, w \in Windows : UserSelectWindow(s, w)

SpecPane == InitPane /\ [][NextPane]_vars

\* The calls of two processes, or of two tool calls of one process, interleave
\* at their awaits: nothing in findOrCreatePane (320-395) makes one call wait
\* for another.  No tmux command fails in these runs.
\* Both processes serve /a; p2 runs in either session.
InitConcurrent ==
    /\ wins = [s \in Sessions |-> {0}]
    /\ curw = [s \in Sessions |-> 0]
    /\ lastw = [s \in Sessions |-> <<>>]
    /\ env = [s \in Sessions |-> {}]
    /\ moves = 0
    /\ dir = [p \in Procs |-> "/a"]
    /\ sess \in {f \in [Procs -> Sessions] : f["p1"] = "0"}
    /\ faults = FALSE
    /\ serial = FALSE
    /\ cache = [p \in Procs |-> NoPane]
    /\ pc = [p \in Procs |-> "idle"]
    /\ cur = [p \in Procs |-> NoPane]
    /\ newp = [p \in Procs |-> NoPane]
    /\ ret = [p \in Procs |-> NoPane]
    /\ how = [p \in Procs |-> "none"]
    /\ first = [p \in Procs |-> NoPane]
    /\ createdFor = [d \in Dirs |-> {}]
    /\ req = [p \in Procs |-> ""]
    /\ given = {}
    /\ ExecAtRest([glyph |-> "$", path |-> FALSE], FALSE)
    /\ TaskAtRest(<<>>)
    /\ TextAtRest
SpecConcurrent == InitConcurrent /\ [][NextPane]_vars

(***************************************************************************)
(* The Prompt Detector: checkForPrompt and its table                       *)
(***************************************************************************)
\* A text is what output.split('\n') makes of it: a non-empty sequence of
\* lines.  A line is a sequence of words in folded case (every pattern of
\* the table carries the i flag); the words of a line follow each other
\* with nothing in between, and " " is the word of one space.
MaxLines == 6
LastLines == 5
Space == {" ", "\n"}
LineSet == {<<>>, <<"password">>, <<":">>, <<"password", " for">>, <<"continue?">>}
Texts == UNION {[1..n -> LineSet] : n \in 1..MaxLines}

\* PROMPT_PATTERNS, in the order of the table.  An entry matches head
\* followed by tail; ws says that \s* stands between the two, and a tail
\* of "" that the pattern is the head alone.
PROMPT_PATTERNS == <<
    [head |-> "password", ws |-> TRUE, tail |-> ":",
     type |-> "password", message |-> "Password required"],
    [head |-> "passphrase", ws |-> TRUE, tail |-> ":",
     type |-> "password", message |-> "Passphrase required"],
    [head |-> "username", ws |-> TRUE, tail |-> ":",
     type |-> "username", message |-> "Username required"],
    [head |-> "username", ws |-> FALSE, tail |-> " for",
     type |-> "git-username", message |-> "Git username required"],
    [head |-> "password", ws |-> FALSE, tail |-> " for",
     type |-> "git-password", message |-> "Git password required"],
    [head |-> "[y/n]", ws |-> FALSE, tail |-> "",
     type |-> "yes-no", message |-> "Yes/No confirmation required"],
    [head |-> "[y/n]", ws |-> FALSE, tail |-> "",
     type |-> "yes-no", message |-> "Yes/No confirmation required"],
    [head |-> "(y/n)", ws |-> FALSE, tail |-> "",
     type |-> "yes-no", message |-> "Yes/No confirmation required"],
    [head |-> "continue?", ws |-> FALSE, tail |-> "",
     type |-> "confirmation", message |-> "Confirmation required"],
    [head |-> "are you sure", ws |-> FALSE, tail |-> "",
     type |-> "confirmation", message |-> "Confirmation required"] >>

\* lines.join('\n'): the words of the lines with a newline between two lines.
RECURSIVE join(_)
join(lines) ==
    IF Len(lines) = 1 THEN lines[1]
    ELSE lines[1] \o <<"\n">> \o join(Tail(lines))

\* pattern.test(s): the patterns carry no g flag, so that a test starts at
\* the beginning of s and depends on nothing but s.
test(p, s) ==
    \E i \in 1..Len(s) :
        /\ s[i] = p.head
        /\ \/ p.tail = ""
           \/ /\ ~p.ws
              /\ i < Len(s)
              /\ s[i + 1] = p.tail
           \/ /\ p.ws
              /\ \E j \in (i + 1)..Len(s) :
                    /\ s[j] = p.tail
                    /\ \A k \in (i + 1)..(j - 1) : s[k] \in Space

\* The whole text, where the code takes its last lines.
wholeText(lines) ==
    join(lines)

\* lines.slice(-5).join('\n')
lastLines(lines) ==
    join(SubSeq(lines, IF Len(lines) > LastLines THEN Len(lines) - LastLines + 1 ELSE 1,
                Len(lines)))

NoPrompt == [requiresInteraction |-> FALSE, type |-> "undefined", message |-> "undefined"]
Prompt(p) == [requiresInteraction |-> TRUE, type |-> p.type, message |-> p.message]

RECURSIVE loopFrom(_, _)
loopFrom(k, s) ==
    IF k > Len(PROMPT_PATTERNS) THEN NoPrompt
    ELSE IF test(PROMPT_PATTERNS[k], s) THEN Prompt(PROMPT_PATTERNS[k])
    ELSE loopFrom(k + 1, s)

RECURSIVE loopBack(_, _)
loopBack(k, s) ==
    IF k < 1 THEN NoPrompt
    ELSE IF test(PROMPT_PATTERNS[k], s) THEN Prompt(PROMPT_PATTERNS[k])
    ELSE loopBack(k - 1, s)

\* The loop taken from the end of the table.
lastMatch(s) ==
    loopBack(Len(PROMPT_PATTERNS), s)

\* for (const { pattern, type, message } of PROMPT_PATTERNS) ... return
firstMatch(s) ==
    loopFrom(1, s)

checkForPrompt(lines) ==
    firstMatch(lastLines(lines))

(***************************************************************************)
(* The capture protocol: executeInPane (lines 397-543)                     *)
(*                                                                         *)
(* A line of the pane is a sequence of tokens.  The shell of the pane      *)
(* echoes a typed line after its prompt, runs it, prints its output line   *)
(* by line and draws the prompt again; what is typed while a command runs  *)
(* is echoed by the terminal and waits.                                    *)
(***************************************************************************)
PromptGlyph == "PROMPT_GLYPH"       \* the character U+276F of line 417
Glyphs == {PromptGlyph, "$"}
Styles == [glyph : Glyphs, path : BOOLEAN]

CmdTok(k) == "cmd" \o ToString(k)
OutTok(k, i) == "out" \o ToString(k) \o "." \o ToString(i)
\* ===CMD_${commandId}_START=== and ===CMD_${commandId}_END===
StartTok(k) == "===CMD_" \o ToString(k) \o "_START==="
EndTok(k) == "===CMD_" \o ToString(k) \o "_END==="

\* What a command may print: up to MaxOut lines, each of one word, or the
\* prompt for a password, after which it reads a line.
AskLines == <<<<"password", ":">>>>
Outputs(k) == {[i \in 1..n |-> <<OutTok(k, i)>>] : n \in 0..MaxOut} \cup {AskLines}
Asking(prints) == prints = AskLines
\* The exit status of a command: a command that prints nothing may end with
\* status 1, as grep does without a match.
Statuses(prints) == IF prints = <<>> THEN {0, 1} ELSE {0}

\* Line 463: echo "START"; command; echo "END"
markedCommand(k) ==
    <<"echo", StartTok(k), ";", CmdTok(k), ";", "echo", EndTok(k)>>
MarkedPrints(k, prints) == <<<<StartTok(k)>>>> \o prints \o <<<<EndTok(k)>>>>

\* What is typed for a command: its text, what it prints, whether it then
\* reads a line, and what is printed after that line.
RawItem(k, prints) ==
    [text |-> <<CmdTok(k)>>, prints |-> prints, asks |-> Asking(prints), after |-> <<>>]
MarkedItem(k, prints) ==
    IF Asking(prints)
    THEN [text |-> markedCommand(k), prints |-> <<<<StartTok(k)>>>> \o prints,
          asks |-> TRUE, after |-> <<<<EndTok(k)>>>>]
    ELSE [text |-> markedCommand(k), prints |-> MarkedPrints(k, prints),
          asks |-> FALSE, after |-> <<>>]

\* The prompt the shell draws after a command.
PromptLines(st) ==
    (IF st.path THEN <<<<"~/dir">>>> ELSE <<>>) \o <<<<st.glyph>>>>

\* The shell starts the typed line: it stands after the prompt, on the last line.
StartLine(b, item) == [b EXCEPT ![Len(b)] = @ \o item.text]

\* Keys typed while a command runs are lost.
SendKeysLost(item) ==
    IF shell.busy
    THEN UNCHANGED <<buf, shell>>
    ELSE /\ buf' = StartLine(buf, item)
         /\ shell' = [shell EXCEPT !.busy = TRUE, !.rest = item.prints, !.asks = item.asks,
                                   !.after = item.after]

\* tmux send-keys <text> Enter.
SendKeysEnter(item) ==
    IF shell.busy
    THEN /\ Len(shell.queue) < MaxQueue
         /\ buf' = Append(buf, item.text)
         /\ shell' = [shell EXCEPT !.queue = Append(@, item)]
    ELSE /\ buf' = StartLine(buf, item)
         /\ shell' = [shell EXCEPT !.busy = TRUE, !.rest = item.prints, !.asks = item.asks,
                                   !.after = item.after]

\* paneContent.split('\n') of `tmux capture-pane -p -S -`: the history, the
\* screen down to its last row, and the empty string after the final newline.
Blank(n) == [i \in 1..n |-> <<>>]
Snapshot(b) == b \o Blank(IF Len(b) < ScreenRows THEN ScreenRows - Len(b) ELSE 0) \o Blank(1)

\* paneContent.split('\n') of `tmux capture-pane -p -S -10` (line 519): the
\* last 10 lines of the history and the screen.
TailHistory == 10
TailSnapshot(b) ==
    IF Len(Snapshot(b)) - 1 > ScreenRows + TailHistory
    THEN SubSeq(Snapshot(b), Len(Snapshot(b)) - ScreenRows - TailHistory, Len(Snapshot(b)))
    ELSE Snapshot(b)

\* No prompt is ever reported.
promptNever(tier) == NoPrompt

\* Lines 435, 473-474 and 520: promptCheck, of the snapshot of a capturing
\* call or of the tail of the pane.
promptCheck(tier) == checkForPrompt(IF tier = 0 THEN TailSnapshot(buf) ELSE Snapshot(buf))

\* A string as the sequence of its lines: the empty string has one empty line.
TextOf(ls) == IF ls = <<>> THEN <<<<>>>> ELSE ls

\* String.prototype.trim on a text whose lines hold no blanks of their own.
RECURSIVE DropBlankHead(_)
DropBlankHead(ls) ==
    IF ls = <<>> \/ Head(ls) # <<>> THEN ls ELSE DropBlankHead(Tail(ls))
RECURSIVE DropBlankTail(_)
DropBlankTail(ls) ==
    IF ls = <<>> \/ ls[Len(ls)] # <<>> THEN ls ELSE DropBlankTail(SubSeq(ls, 1, Len(ls) - 1))
Trim(text) == TextOf(DropBlankTail(DropBlankHead(text)))

\* Lines 415-420: the indexes (from 1) of the lines that start with the glyph.
RECURSIVE promptLines(_, _)
promptLines(lines, i) ==
    IF i > Len(lines) THEN <<>>
    ELSE (IF lines[i] # <<>> /\ Head(lines[i]) = PromptGlyph THEN <<i>> ELSE <<>>)
         \o promptLines(lines, i + 1)

\* Lines 424-429.
startLine(pl) == pl[Len(pl) - 1] + 1
\* The margin off by one: the line above the last prompt is kept.
endLineShort(pl) == pl[Len(pl)] - 1
endLine(pl) == pl[Len(pl)] - 2

\* Tier 1 never applies.
TierOneNever(lines) ==
    [ok |-> FALSE, output |-> <<<<>>>>]

\* Lines 422-432: the Tier 1 slice, or "none" when Tier 1 does not apply.
TierOne(lines) ==
    LET pl == promptLines(lines, 1)
    IN IF Len(pl) >= 2 /\ startLine(pl) <= endLine(pl)
       THEN [ok |-> TRUE, output |-> Trim(TextOf(SubSeq(lines, startLine(pl), endLine(pl))))]
       ELSE [ok |-> FALSE, output |-> <<<<>>>>]

\* sed -n '/START/,/END/p': the end of a range is looked for from the line
\* after the one that opened it.
Has(line, tok) == \E i \in 1..Len(line) : line[i] = tok
RECURSIVE SedRange(_, _, _, _)
SedRange(lines, from, to, inRange) ==
    IF lines = <<>> THEN <<>>
    ELSE LET l == Head(lines)
         IN IF inRange
            THEN <<l>> \o SedRange(Tail(lines), from, to, ~Has(l, to))
            ELSE IF Has(l, from)
                 THEN <<l>> \o SedRange(Tail(lines), from, to, TRUE)
                 ELSE SedRange(Tail(lines), from, to, FALSE)

\* sed '1d;$d'
SedDropFirstLast(lines) ==
    IF Len(lines) <= 2 THEN <<>> ELSE SubSeq(lines, 2, Len(lines) - 1)

\* Lines 468-470 and 479: markedOutput.trim().  capture-pane prints the lines
\* of the pane; the final empty string of Snapshot is not a line of its output.
markedOutput(b, k) ==
    LET printed == SubSeq(Snapshot(b), 1, Len(Snapshot(b)) - 1)
    IN Trim(TextOf(SedDropFirstLast(SedRange(printed, StartTok(k), EndTok(k), FALSE))))

\* Whether everything typed into the pane has run to its end.
Finished == ~shell.busy /\ shell.queue = <<>>

\* The pane registry does not move in the runs of the capture protocol.
PaneAtRest ==
    /\ wins = [s \in Sessions |-> {0}]
    /\ curw = [s \in Sessions |-> 0]
    /\ lastw = [s \in Sessions |-> <<>>]
    /\ env = [s \in Sessions |-> {}]
    /\ moves = 0
    /\ dir = [p \in Procs |-> "/a"]
    /\ sess = [p \in Procs |-> "0"]
    /\ faults = FALSE
    /\ serial = TRUE
    /\ cache = [p \in Procs |-> NoPane]
    /\ pc = [p \in Procs |-> "idle"]
    /\ cur = [p \in Procs |-> NoPane]
    /\ newp = [p \in Procs |-> NoPane]
    /\ ret = [p \in Procs |-> NoPane]
    /\ how = [p \in Procs |-> "none"]
    /\ first = [p \in Procs |-> NoPane]
    /\ createdFor = [d \in Dirs |-> {}]
    /\ req = [p \in Procs |-> ""]
    /\ given = {}

InitExec ==
    /\ PaneAtRest
    /\ \E st \in Styles, earlier \in BOOLEAN : ExecAtRest(st, earlier)
    /\ TaskAtRest(<<>>)
    /\ TextAtRest

\* Lines 437-444, 476-483 and 523-530: the CommandExecution of a call that
\* returns from its try block or from the branch without capture; one entry
\* has gone to logCommand (446-454, 486-494, 532-540).
\* The exit status of the command handed on as the exitCode.
ReturnsStatus(output, lines, tier) ==
    [output |-> output, exitCode |-> xstatus, linesCaptuerd |-> lines, tier |-> tier,
     finished |-> Finished, id |-> xid, threw |-> FALSE, logged |-> 1,
     requiresInteraction |-> promptCheck(tier).requiresInteraction,
     type |-> promptCheck(tier).type]
Returns(output, lines, tier) ==
    [output |-> output, exitCode |-> 0, linesCaptuerd |-> lines, tier |-> tier,
     finished |-> Finished, id |-> xid, threw |-> FALSE, logged |-> 1,
     requiresInteraction |-> promptCheck(tier).requiresInteraction,
     type |-> promptCheck(tier).type]

\* Lines 497-514: the catch clause around both tiers; one entry has gone to
\* logCommand (506-512).
ErrorOutput == <<<<"Error capturing output">>>>
\* The catch clause throws the error on.
errorRethrown == [NoResult EXCEPT !.id = xid, !.threw = TRUE]
errorResult ==
    [output |-> ErrorOutput, exitCode |-> -1, linesCaptuerd |-> 0, tier |-> 0,
     finished |-> Finished, id |-> xid, threw |-> FALSE, logged |-> 1,
     requiresInteraction |-> FALSE, type |-> "undefined"]

\* An exception leaves executeInPane: nothing is returned, nothing is logged.
Thrown(k) == [NoResult EXCEPT !.id = k, !.threw = TRUE]

\* An execAsync(tmux ...) resolves or rejects.
Resolves == BOOLEAN

\* Lines 397-402: the call starts and sends the command; a send-keys that
\* fails throws out of the call.
ExecSend ==
    \E prints \in Outputs(xid + 1), capture \in BOOLEAN, ok \in Resolves :
    \E status \in Statuses(prints) :
    /\ xpc = "idle"
    /\ xid < MaxCalls
    /\ xid' = xid + 1
    /\ xcmd' = prints
    /\ xstatus' = status
    /\ xcapture' = capture
    /\ IF ok
       THEN /\ SendKeysEnter(RawItem(xid + 1, prints))
            /\ xsent' = 1
            /\ xpc' = "sent"
            /\ xres' = NoResult
            /\ xfailed' = "none"
       ELSE /\ xsent' = 0
            /\ xfailed' = "send"
            /\ xpc' = "idle"
            /\ xres' = Thrown(xid + 1)
            /\ UNCHANGED <<buf, shell>>
    /\ UNCHANGED <<style, paneVars, taskVars, textVars>>

\* Lines 404-459: after the settle delay, the snapshot and Tier 1; a
\* capture-pane that fails is caught.
ExecTierOne ==
    \E ok \in Resolves :
    /\ xpc = "sent"
    /\ xcapture
    /\ LET t == TierOne(Snapshot(buf))
       IN IF ~ok
          THEN /\ xres' = errorResult
               /\ xfailed' = "snapshot"
               /\ xpc' = "idle"
          ELSE IF t.ok
          THEN /\ xres' = Returns(t.output, Len(t.output), 1)
               /\ xpc' = "idle"
               /\ UNCHANGED xfailed
          ELSE /\ xpc' = "resend"
               /\ UNCHANGED <<xres, xfailed>>
    /\ UNCHANGED <<style, buf, shell, xid, xcmd, xstatus, xcapture, xsent, paneVars, taskVars, textVars>>

\* Lines 461-464: the command is sent again, between the markers; a send-keys
\* that fails is caught.
ExecSendMarked ==
    \E ok \in Resolves :
    /\ xpc = "resend"
    /\ IF ok
       THEN /\ SendKeysEnter(MarkedItem(xid, xcmd))
            /\ xsent' = xsent + 1
            /\ xpc' = "marked"
            /\ UNCHANGED <<xres, xfailed>>
       ELSE /\ xres' = errorResult
            /\ xfailed' = "resend"
            /\ xpc' = "idle"
            /\ UNCHANGED <<buf, shell, xsent>>
    /\ UNCHANGED <<style, xid, xcmd, xstatus, xcapture, paneVars, taskVars, textVars>>

\* Lines 465-496: after the second delay, the slice between the markers; a
\* capture that fails is caught.
ExecTierTwo ==
    \E ok \in Resolves :
    /\ xpc = "marked"
    /\ xres' = IF ok
               THEN Returns(markedOutput(buf, xid), Len(markedOutput(buf, xid)), 2)
               ELSE errorResult
    /\ xfailed' = IF ok THEN xfailed ELSE "slice"
    /\ xpc' = "idle"
    /\ UNCHANGED <<style, buf, shell, xid, xcmd, xstatus, xcapture, xsent, paneVars, taskVars, textVars>>

\* Lines 516-542: captureOutput = false; a capture-pane that fails throws out
\* of the call.
ExecNoCapture ==
    \E ok \in Resolves :
    /\ xpc = "sent"
    /\ ~xcapture
    /\ xres' = IF ok
               THEN Returns(<<<<"Command sent (output not captured)">>>>, 0, 0)
               ELSE Thrown(xid)
    /\ xfailed' = IF ok THEN xfailed ELSE "tail"
    /\ xpc' = "idle"
    /\ UNCHANGED <<style, buf, shell, xid, xcmd, xstatus, xcapture, xsent, paneVars, taskVars, textVars>>

\* The running command prints its next line.
ShellPrint ==
    /\ shell.busy
    /\ shell.rest # <<>>
    /\ buf' = Append(buf, Head(shell.rest))
    /\ shell' = [shell EXCEPT !.rest = Tail(@)]
    /\ UNCHANGED <<style, xpc, xid, xcmd, xstatus, xcapture, xsent, xfailed, xres, paneVars, taskVars, textVars>>

\* The running command has printed its prompt and reads a line: it takes
\* the typed line that waits first, which the terminal does not show, and
\* goes on.
ShellRead ==
    /\ shell.busy
    /\ shell.rest = <<>>
    /\ shell.asks
    /\ shell.queue # <<>>
    /\ shell' = [shell EXCEPT !.asks = FALSE, !.rest = shell.after, !.after = <<>>,
                              !.queue = Tail(@), !.fed = Append(@, Head(shell.queue).text)]
    /\ UNCHANGED <<style, buf, xpc, xid, xcmd, xstatus, xcapture, xsent, xfailed, xres, paneVars, taskVars, textVars>>

\* The running command ends: the shell draws its prompt and starts the next
\* typed line, if one waits.
ShellFinish ==
    /\ shell.busy
    /\ shell.rest = <<>>
    /\ ~shell.asks
    /\ IF shell.queue = <<>>
       THEN /\ buf' = buf \o PromptLines(style)
            /\ shell' = [shell EXCEPT !.busy = FALSE]
       ELSE /\ buf' = StartLine(buf \o PromptLines(style), Head(shell.queue))
            /\ shell' = [shell EXCEPT !.rest = Head(shell.queue).prints,
                                      !.asks = Head(shell.queue).asks,
                                      !.after = Head(shell.queue).after,
                                      !.queue = Tail(@)]
    /\ UNCHANGED <<style, xpc, xid, xcmd, xstatus, xcapture, xsent, xfailed, xres, paneVars, taskVars, textVars>>

NextExec ==
    \/ ExecSend
    \/ ExecTierOne
    \/ ExecSendMarked
    \/ ExecTierTwo
    \/ ExecNoCapture
    \/ ShellPrint
    \/ ShellRead
    \/ ShellFinish

SpecExec == InitExec /\ [][NextExec]_vars

(***************************************************************************)
(* The background task tracker: loadTaskStatus, saveTaskStatus (lines      *)
(* 267-282), launch_background_task (764-825) and check_background_tasks   *)
(* (827-866).  A handler gives way to the other handlers and timers at     *)
(* every await, so each load and each save is a step of its own.           *)
(***************************************************************************)
\* Lines 267-275: the list in status.json, or [] when it cannot be read.
loadTaskStatus == disk

\* Lines 776-783.
newTask(t, f, now) ==
    [id |-> t, outputFile |-> f, status |-> "pending", startTime |-> now, endTime |-> 0]

\* Line 799: newTask.status = 'running'; newTask is the record pushed last.
StatusKept(tasks) == tasks
MarkRunning(tasks) == [tasks EXCEPT ![Len(tasks)].status = "running"]

\* Line 805: currentTasks.findIndex(t => t.id === taskId), 0 for -1.
findIndex(tasks, t) ==
    IF \E i \in DOMAIN tasks : tasks[i].id = t
    THEN CHOOSE i \in DOMAIN tasks :
            /\ tasks[i].id = t
            /\ \A j \in DOMAIN tasks : tasks[j].id = t => i <= j
    ELSE 0

\* Lines 807-808.
\* The timer fails the task without its time stamp.
MarkFailedNoEnd(tasks, i, now) == [tasks EXCEPT ![i].status = "failed"]
MarkFailed(tasks, i, now) == [tasks EXCEPT ![i].status = "failed", ![i].endTime = now]

\* Lines 834-841: the file exists and the task is completed, or it does not
\* and the task stays as it is.
\* The transition without its time stamp.
CheckedNoEnd(task, exists, now) ==
    IF exists THEN [task EXCEPT !.status = "completed"] ELSE task
\* The check fails the tasks whose file does not exist.
CheckedOrFailed(task, exists, now) ==
    IF exists THEN [task EXCEPT !.status = "completed", !.endTime = now]
    ELSE [task EXCEPT !.status = "failed", !.endTime = now]
CheckedAnyway(task, exists, now) == [task EXCEPT !.status = "completed", !.endTime = now]
Checked(task, exists, now) ==
    IF exists THEN [task EXCEPT !.status = "completed", !.endTime = now] ELSE task

\* Line 832: the running tasks the loop has not reached yet.
RunningFrom(tasks, i) == {j \in DOMAIN tasks : j >= i /\ tasks[j].status = "running"}
Lowest(S) == CHOOSE x \in S : \A y \in S : x <= y

InitTask ==
    /\ PaneAtRest
    /\ ExecAtRest([glyph |-> "$", path |-> FALSE], FALSE)
    /\ \E list \in {<<>>, <<EarlierTask>>} : TaskAtRest(list)
    /\ TextAtRest

\* Lines 765-783: the task id, the pane of the task and newTask; the call
\* ends in an error when findOrCreatePane throws.
\* Lines 278-282: mkdir and writeFile of the timer's save succeed or fail.
Written == BOOLEAN

\* Whether the process lives on after an unhandled rejection: Node.js from
\* version 15 on ends the process, older versions print a warning.
Unhandled == {TRUE, FALSE}

LaunchStart ==
    \E f \in LaunchFiles, ok \in BOOLEAN :
    /\ alive
    /\ launched < MaxTasks
    /\ launched' = launched + 1
    /\ lpc' = [lpc EXCEPT ![launched + 1] = IF ok THEN "load" ELSE "error"]
    /\ lnew' = [lnew EXCEPT ![launched + 1] =
                    IF ok THEN newTask(launched + 1, f, clock) ELSE NoTask]
    /\ UNCHANGED <<alive, tfired, disk, files, clock, ltasks, tpc, ttasks, checks, cpc, ctasks, ci, cabsent, cfound,
                   paneVars, execVars, textVars>>

\* Lines 786-787: load the list and push newTask.
LaunchLoad(t) ==
    /\ alive
    /\ lpc[t] = "load"
    /\ ltasks' = [ltasks EXCEPT ![t] = Append(loadTaskStatus, lnew[t])]
    /\ lpc' = [lpc EXCEPT ![t] = "save1"]
    /\ UNCHANGED <<alive, tfired, disk, files, clock, launched, lnew, tpc, ttasks, checks, cpc, ctasks, ci,
                   cabsent, cfound, paneVars, execVars, textVars>>

\* Line 788: the first save.
LaunchSave1(t) ==
    /\ alive
    /\ lpc[t] = "save1"
    /\ disk' = ltasks[t]
    /\ lpc' = [lpc EXCEPT ![t] = "notify"]
    /\ UNCHANGED <<alive, tfired, files, clock, launched, lnew, ltasks, tpc, ttasks, checks, cpc, ctasks, ci,
                   cabsent, cfound, paneVars, execVars, textVars>>

\* Lines 790-796: CLAUDE.md and the keys for the pane; either may throw.
LaunchNotify(t) ==
    \E ok \in BOOLEAN :
    /\ alive
    /\ lpc[t] = "notify"
    /\ lpc' = [lpc EXCEPT ![t] = IF ok THEN "save2" ELSE "error"]
    /\ ltasks' = [ltasks EXCEPT ![t] = IF ok THEN @ ELSE <<>>]
    /\ UNCHANGED <<alive, tfired, disk, files, clock, launched, lnew, tpc, ttasks, checks, cpc, ctasks, ci,
                   cabsent, cfound, paneVars, execVars, textVars>>

\* Lines 798-824: the status becomes running, the second save, the timer is
\* set and the call returns.
LaunchSave2(t) ==
    /\ alive
    /\ lpc[t] = "save2"
    /\ disk' = MarkRunning(ltasks[t])
    /\ tpc' = [tpc EXCEPT ![t] = "armed"]
    /\ lpc' = [lpc EXCEPT ![t] = "done"]
    /\ ltasks' = [ltasks EXCEPT ![t] = <<>>]
    /\ UNCHANGED <<alive, tfired, files, clock, launched, lnew, ttasks, checks, cpc, ctasks, ci, cabsent, cfound,
                   paneVars, execVars, textVars>>

\* Lines 803-808: the timer fires, loads the list and looks at its task.
TimerLoad(t) ==
    /\ alive
    /\ tpc[t] = "armed"
    /\ LET i == findIndex(loadTaskStatus, t)
       IN IF i # 0 /\ loadTaskStatus[i].status = "running"
          THEN /\ ttasks' = [ttasks EXCEPT ![t] = MarkFailed(loadTaskStatus, i, clock + 1)]
               /\ clock' = clock + 1
               /\ tpc' = [tpc EXCEPT ![t] = "save"]
          ELSE /\ tpc' = [tpc EXCEPT ![t] = "end"]
               /\ UNCHANGED <<ttasks, clock>>
    /\ tfired' = [tfired EXCEPT ![t] = checks]
    /\ UNCHANGED <<alive, disk, files, launched, lpc, lnew, ltasks, checks, cpc, ctasks, ci, cabsent, cfound,
                   paneVars, execVars, textVars>>

\* Line 809: the save of the timer.  Nothing awaits the promise of the timer
\* callback: when the save fails the rejection is unhandled.
TimerSave(t) ==
    /\ alive
    /\ tpc[t] = "save"
    /\ \E ok \in Written :
          /\ disk' = IF ok THEN ttasks[t] ELSE disk
          /\ alive' \in IF ok THEN {alive} ELSE Unhandled
          /\ tpc' = [tpc EXCEPT ![t] = IF ok THEN "end" ELSE "rejected"]
    /\ ttasks' = [ttasks EXCEPT ![t] = <<>>]
    /\ UNCHANGED <<tfired, files, clock, launched, lpc, lnew, ltasks, checks, cpc, ctasks, ci, cabsent, cfound,
                   paneVars, execVars, textVars>>

\* Line 828: check_background_tasks loads the list.
CheckLoad ==
    /\ alive
    /\ cpc = "idle"
    /\ checks < MaxChecks
    /\ checks' = checks + 1
    /\ ctasks' = loadTaskStatus
    /\ ci' = 1
    /\ cabsent' = {}
    /\ cfound' = {}
    /\ cpc' = "loop"
    /\ UNCHANGED <<alive, tfired, disk, files, clock, launched, lpc, lnew, ltasks, tpc, ttasks, paneVars, execVars, textVars>>

\* Lines 831-843: fs.access for the next running task of the list.
CheckAccess ==
    /\ alive
    /\ cpc = "loop"
    /\ RunningFrom(ctasks, ci) # {}
    /\ LET i == Lowest(RunningFrom(ctasks, ci))
           exists == ctasks[i].outputFile \in files
       IN /\ ctasks' = [ctasks EXCEPT ![i] = Checked(@, exists, clock + 1)]
          /\ clock' = IF exists THEN clock + 1 ELSE clock
          /\ cabsent' = IF exists THEN cabsent ELSE cabsent \cup {ctasks[i].id}
          /\ cfound' = IF exists THEN cfound \cup {ctasks[i].id} ELSE cfound
          /\ ci' = i + 1
    /\ UNCHANGED <<alive, tfired, disk, files, launched, lpc, lnew, ltasks, tpc, ttasks, checks, cpc,
                   paneVars, execVars, textVars>>

\* Lines 845-865: the loop is over; the list is saved and the call returns.
CheckSave ==
    /\ alive
    /\ cpc = "loop"
    /\ RunningFrom(ctasks, ci) = {}
    /\ disk' = ctasks
    /\ ctasks' = <<>>
    /\ ci' = 0
    /\ cabsent' = {}
    /\ cfound' = {}
    /\ cpc' = "idle"
    /\ UNCHANGED <<alive, tfired, files, clock, launched, lpc, lnew, ltasks, tpc, ttasks, checks,
                   paneVars, execVars, textVars>>

\* Whoever works in the pane of a task writes an output file.
WriteOutputFile(f) ==
    /\ f \notin files
    /\ files' = files \cup {f}
    /\ UNCHANGED <<alive, tfired, disk, clock, launched, lpc, lnew, ltasks, tpc, ttasks, checks, cpc, ctasks,
                   ci, cabsent, cfound, paneVars, execVars, textVars>>

NextTask ==
    \/ LaunchStart
    \/ \E t \in TaskIds : LaunchLoad(t)
    \/ \E t \in TaskIds : LaunchSave1(t)
    \/ \E t \in TaskIds : LaunchNotify(t)
    \/ \E t \in TaskIds : LaunchSave2(t)
    \/ \E t \in TaskIds : TimerLoad(t)
    \/ \E t \in TaskIds : TimerSave(t)
    \/ CheckLoad
    \/ CheckAccess
    \/ CheckSave
    \/ \E f \in OutFiles : WriteOutputFile(f)

SpecTask == InitTask /\ [][NextTask]_vars

(***************************************************************************)
(* Claims about the pane registry                                          *)
(***************************************************************************)
Returned(p) == pc[p] = "idle" /\ ret[p] \in Addr

\* C1: within one process, while the pane returned by the first call stays
\* alive, every later call for the directory returns that same pane (and so
\* creates none).  Stated for runs in which no tmux command fails.
C1_SamePaneWhileAlive ==
    \A p \in Procs :
        (~faults /\ Returned(p) /\ first[p] \in Addr) => ret[p] = first[p]

\* C2: a call never returns a stale reference: whenever a call returns a pane,
\* a live pane has exactly that address.
C2_NeverReturnsStale ==
    [][\A p \in Procs :
          (pc[p] # "idle" /\ pc'[p] = "idle" /\ ret'[p] # ErrPane) => ret'[p] \in Live']_vars

\* C3: two processes serving distinct directories in the same session, once a
\* pane has been created for each, are never given the same pane.
C3_DistinctDirsDistinctPanes ==
    \A p, q \in Procs :
        (/\ ~faults
         /\ dir[p] # dir[q] /\ sess[p] = sess[q]
         /\ createdFor[dir[p]] # {} /\ createdFor[dir[q]] # {}
         /\ Returned(p) /\ Returned(q))
        => ret[p] # ret[q]

\* C4: a call that finds no cache entry and adopts a pane by the marker scan,
\* while a pane created for its directory is alive, returns a pane that was
\* created for its directory.
C4_ScanFindsCreatedPane ==
    \A p \in Procs :
        (~faults /\ Returned(p) /\ how[p] = "scan" /\ createdFor[dir[p]] # {})
        => ret[p] \in createdFor[dir[p]]

(***************************************************************************)
(* Claims about the capture protocol                                       *)
(***************************************************************************)
\* A call with captureOutput = true has returned through one of the tiers.
Captured(t) == xpc = "idle" /\ xres.tier = t /\ xres.exitCode = 0

\* C5: Tier 2 round trip.  When the wrapped command has finished before the
\* snapshot, the output of the marker fallback is exactly the trimmed text
\* the command printed: no START line, no END line, no line of the echoed
\* wrapped command.
C5_TierTwoRoundTrip ==
    (Captured(2) /\ xres.finished) => xres.output = Trim(TextOf(xcmd))

\* C6: output attribution.  The output of a capturing call that returns
\* exitCode 0 is the complete trimmed text of its own command when the
\* command had finished at the snapshot, and a prefix of that text when it
\* was still running; it never holds a line printed by an earlier command.
C6_OutputIsOwnCommands ==
    (Captured(1) \/ Captured(2)) =>
        IF xres.finished
        THEN xres.output = Trim(TextOf(xcmd))
        ELSE \E n \in 0..Len(xcmd) : xres.output = Trim(TextOf(SubSeq(xcmd, 1, n)))

\* The prompt lines of a snapshot and the lines between the last two of
\* them, short of the margin before the last one.
PromptSet(lines) == {i \in 1..Len(lines) : lines[i] # <<>> /\ lines[i][1] = PromptGlyph}
Highest(S) == CHOOSE x \in S : \A y \in S : y <= x
LastPrompt(lines) == Highest(PromptSet(lines))
SecondLastPrompt(lines) == Highest(PromptSet(lines) \ {LastPrompt(lines)})
BetweenPrompts(lines) ==
    Trim(TextOf([j \in 1..(LastPrompt(lines) - 2 - SecondLastPrompt(lines)) |->
                    lines[SecondLastPrompt(lines) + j]]))
\* The step of a capturing call that takes the snapshot after the first send,
\* when capture-pane gives one.
SnapshotStep == xpc = "sent" /\ xcapture /\ xpc' # "sent" /\ xfailed' = "none"
ReturnsBetweenPrompts ==
    /\ xpc' = "idle"
    /\ xsent' = 1
    /\ xres'.tier = 1
    /\ xres'.output = BetweenPrompts(Snapshot(buf))

\* C7 as claimed: whenever the snapshot holds at least two prompt lines, the
\* call returns the lines between the last two of them, short of the margin,
\* and does not send the command a second time.
C7_TierOneWheneverTwoPrompts ==
    [][(SnapshotStep /\ Cardinality(PromptSet(Snapshot(buf))) >= 2)
          => ReturnsBetweenPrompts]_vars

\* C7 as amended: whenever the snapshot holds at least two prompt lines and
\* the last one lies at least three lines below the second to last, the call
\* returns the lines from the one after the second-to-last prompt line down
\* to the second line above the last prompt line, joined and trimmed, and
\* does not send the command a second time.
C7_TierOneWhenLinesBetween ==
    [][(/\ SnapshotStep
        /\ Cardinality(PromptSet(Snapshot(buf))) >= 2
        /\ LastPrompt(Snapshot(buf)) - SecondLastPrompt(Snapshot(buf)) >= 3)
          => ReturnsBetweenPrompts]_vars

\* C7 witness: a call has returned through Tier 1 after a single send.
C7_Witness == Captured(1) /\ xsent = 1 /\ xres.output # <<<<>>>>

(***************************************************************************)
(* Claims about the background task tracker                                *)
(***************************************************************************)
\* The indexes of the records of task t in a list.
RecordsOf(tasks, t) == {j \in DOMAIN tasks : tasks[j].id = t}

\* C8: completed and failed are sinks.  Once the persisted record of a task
\* is completed or failed, no step of any call or timer changes its
\* persisted status or endTime.
C8_TerminalIsSink ==
    [][\A i \in DOMAIN disk :
          disk[i].status \in {"completed", "failed"} =>
             \E j \in DOMAIN disk' :
                /\ disk'[j].id = disk[i].id
                /\ disk'[j].status = disk[i].status
                /\ disk'[j].endTime = disk[i].endTime]_vars

\* C9: a launch puts its record into the persisted list as pending and, when
\* it returns, the persisted list holds exactly one record with the new task
\* id, running and without endTime.
C9_LaunchLeavesOneRunningRecord ==
    [][\A t \in TaskIds :
          /\ (lpc[t] = "save1" /\ lpc'[t] = "notify") =>
                \E j \in DOMAIN disk' : disk'[j].id = t /\ disk'[j].status = "pending"
          /\ (lpc[t] = "save2" /\ lpc'[t] = "done") =>
                /\ Cardinality(RecordsOf(disk', t)) = 1
                /\ \A j \in RecordsOf(disk', t) :
                      disk'[j].status = "running" /\ disk'[j].endTime = 0]_vars

\* C9 witness: a launch has returned and the list holds its record after
\* the record of another task.
C9_Witness ==
    \E t \in TaskIds :
       /\ lpc[t] = "done"
       /\ Len(disk) = 2
       /\ \E j \in RecordsOf(disk, t) : disk[j].status = "running"

\* C10: when a check_background_tasks call returns, every task it loaded as
\* running and whose output file it found absent is persisted as running,
\* without endTime.
C10_CheckKeepsRunning ==
    [][(cpc = "loop" /\ cpc' = "idle") =>
          \A t \in cabsent :
             /\ RecordsOf(disk', t) # {}
             /\ \A j \in RecordsOf(disk', t) :
                   disk'[j].status = "running" /\ disk'[j].endTime = 0]_vars

\* C10 witness: a call has returned, and a task of this process whose output
\* file does not exist is persisted as running.
C10_Witness ==
    /\ cpc = "idle"
    /\ checks > 0
    /\ \E t \in TaskIds : \E j \in RecordsOf(disk, t) :
          disk[j].status = "running" /\ disk[j].outputFile \notin files

\* C11: when a check_background_tasks call returns, every task it loaded as
\* running and whose output file it found is persisted as completed, with an
\* endTime that is set and not before its startTime.
C11_CheckCompletesWhenFileExists ==
    [][(cpc = "loop" /\ cpc' = "idle") =>
          \A t \in cfound :
             /\ RecordsOf(disk', t) # {}
             /\ \A j \in RecordsOf(disk', t) :
                   /\ disk'[j].status = "completed"
                   /\ disk'[j].endTime # 0
                   /\ disk'[j].endTime >= disk'[j].startTime]_vars

\* C11 witness: a call has returned, and a task that this process launched is
\* persisted as completed.
C11_Witness ==
    /\ cpc = "idle"
    /\ checks > 0
    /\ \E t \in TaskIds : \E j \in RecordsOf(disk, t) : disk[j].status = "completed"

\* C12: timeout failure.  When the timer of a task has fired and run to its
\* end, no check_background_tasks call was begun before it fired and the
\* output file of the task has not appeared, the task is persisted as failed
\* with endTime set.
C12_TimeoutPersistsFailed ==
    \A t \in TaskIds :
       (tpc[t] = "end" /\ tfired[t] = 0 /\ lnew[t].outputFile \notin files) =>
          \E j \in RecordsOf(disk, t) : disk[j].status = "failed" /\ disk[j].endTime # 0

(***************************************************************************)
(* Claims about the results and the log of the capture protocol            *)
(***************************************************************************)
\* A call of executeInPane has ended: it has returned or thrown.
Ended == xpc = "idle" /\ xid > 0

\* C13: every call of executeInPane hands exactly one LogEntry to
\* logCommand, whatever path it takes, also when a send-keys or a
\* capture-pane fails.
C13_OneLogEntryPerCall == Ended => xres.logged = 1

\* The steps inside the try block of executeInPane: the snapshot, the second
\* send and the slice between the markers.
CaptureSteps == {"snapshot", "resend", "slice"}

\* C14: the exitCode of every CommandExecution that executeInPane returns
\* is 0 or -1; it is -1 exactly when a capture step threw, whatever the exit
\* status of the command in the pane.
C14_ExitCodeZeroOrMinusOne ==
    (Ended /\ ~xres.threw) =>
        /\ xres.exitCode \in {0, -1}
        /\ xres.exitCode = -1 <=> xfailed \in CaptureSteps

\* C14 witness: a call has returned exitCode 0 with the captured output of a
\* command whose exit status was not 0.
C14_Witness == Ended /\ xres.tier \in {1, 2} /\ xres.exitCode = 0 /\ xstatus = 1

\* C15: capture failure.  When a capture step of a call with
\* captureOutput = true fails, the call returns (it does not throw) a
\* CommandExecution with exitCode -1, linesCaptured 0 and the explanatory
\* output, and what was sent to the pane stays as it is: nothing is taken
\* back and nothing is sent again.
C15_CaptureFailureIsReturned ==
    [][(xfailed = "none" /\ xfailed' \in CaptureSteps) =>
          /\ xcapture
          /\ xpc' = "idle"
          /\ ~xres'.threw
          /\ xres'.exitCode = -1
          /\ xres'.linesCaptuerd = 0
          /\ xres'.output = ErrorOutput
          /\ buf' = buf /\ shell' = shell /\ xsent' = xsent]_vars

\* C15 witness: the slice between the markers has failed after both sends
\* and the call has returned the error result.
C15_Witness == Ended /\ xfailed = "slice" /\ xsent = 2 /\ xres.exitCode = -1

\* C16: no failure inside the server ends the process: not a failing tmux
\* command, not a failing read or write of the task list, not a failure
\* inside the callback of the timeout timer.
C16_ProcessStaysAlive == alive

\* ======================================================================
\* The functions on text: checkForPrompt and the truncation of logCommand
\* ======================================================================

\* The outputs handed to logCommand: sequences of characters whose lengths
\* lie within MaxExtra of 0 and of the length from which the code truncates.
\* The character at a place is the last digit of the place, or of the place
\* after it, so that the head and the tail of an output differ.
MaxExtra == 2
TruncateOver == 2000
KeepChars == 1000
Digits == <<"0", "1", "2", "3", "4", "5", "6", "7", "8", "9">>
LogLengths == (0..MaxExtra) \cup ((TruncateOver - MaxExtra)..(TruncateOver + MaxExtra))
LogOutputs == {[i \in 1..n |-> Digits[((i + d) % 10) + 1]] : n \in LogLengths, d \in {0, 1}}

\* '\n...truncated...\n'
TruncatedMark ==
    <<"\n", ".", ".", ".", "t", "r", "u", "n", "c", "a", "t", "e", "d", ".", ".", ".", "\n">>

\* The output as it is, whatever its length.
keepAll(output) ==
    output

\* let logOutput = entry.output; if (logOutput.length > 2000) logOutput = ...
truncate(output) ==
    IF Len(output) > TruncateOver
    THEN SubSeq(output, 1, KeepChars) \o TruncatedMark \o
         SubSeq(output, Len(output) - KeepChars + 1, Len(output))
    ELSE output

\* Nothing is appended to the log file: logging is disabled, there is no log
\* directory, or the append has failed.
NothingWritten == <<"-">>
LOGGING_ENABLED == BOOLEAN
Appended == BOOLEAN
\* Lines 180-203: ensureLogDir returns a directory, or '' when neither the
\* local nor the fallback directory can be made.
LogDirMade == BOOLEAN

\* Lines 206-232: how a logCommand call ends: logging is disabled (207), there
\* is no log directory (211), the append fails and the catch clause reports
\* it (227-231), or the entry is written (227).
logOutcome(enabled, logDir, ok) ==
    IF ~enabled THEN "disabled"
    ELSE IF ~logDir THEN "nodir"
    ELSE IF ~ok THEN "failed"
    ELSE "written"

\* A failure inside logCommand rejects its promise, and the caller throws.
awaitLogCommandRejects(outcome, output) ==
    [output |-> IF outcome \in {"nodir", "failed"} THEN <<>> ELSE output,
     threw |-> outcome \in {"nodir", "failed"}, log |-> outcome]
\* Lines 437-456, 476-496, 523-541: executeInPane builds its result around the
\* output, awaits logCommand for the same output and returns the result;
\* logCommand returns early or catches what fails.
awaitLogCommand(outcome, output) ==
    [output |-> output, threw |-> FALSE, log |-> outcome]

InitText ==
    /\ PaneAtRest
    /\ ExecAtRest([glyph |-> "$", path |-> FALSE], FALSE)
    /\ TaskAtRest(<<>>)
    /\ \/ ptext \in Texts /\ lout = <<>>
       \/ ptext = <<<<>>>> /\ lout \in LogOutputs
    /\ pres = NotChecked
    /\ llog = NotLogged
    /\ lret = NotReturned

\* logCommand(entry), entry.output = lout, awaited by executeInPane; applied
\* in the runs that draw an output (the empty output is one of them).
LogCommand ==
    /\ llog = NotLogged
    /\ ptext = <<<<>>>>
    /\ \E enabled \in LOGGING_ENABLED, logDir \in LogDirMade, ok \in Appended :
          /\ llog' = IF enabled /\ logDir /\ ok THEN truncate(lout) ELSE NothingWritten
          /\ lret' = awaitLogCommand(logOutcome(enabled, logDir, ok), lout)
    /\ UNCHANGED <<paneVars, execVars, taskVars, ptext, pres, lout>>

CheckForPrompt ==
    /\ pres = NotChecked
    /\ pres' = checkForPrompt(ptext)
    /\ UNCHANGED <<paneVars, execVars, taskVars, ptext, lout, llog, lret>>

NextText ==
    \/ CheckForPrompt
    \/ LogCommand

SpecText == InitText /\ [][NextText]_vars

\* The patterns of the table that match within the last LastLines lines of
\* the text: the lines from Len - LastLines + 1 on, or all of them.
Checked17 == pres # NotChecked
TailLines ==
    [i \in 1..(IF Len(ptext) > LastLines THEN LastLines ELSE Len(ptext)) |->
        ptext[Len(ptext) - (IF Len(ptext) > LastLines THEN LastLines ELSE Len(ptext)) + i]]
Hits == {k \in DOMAIN PROMPT_PATTERNS : test(PROMPT_PATTERNS[k], join(TailLines))}
EarlyLines == SubSeq(ptext, 1, Len(ptext) - LastLines)

\* C17: checkForPrompt(text) reports requiresInteraction = true exactly when
\* at least one pattern of the table matches within the last 5 lines of the
\* text; a pattern that matches only in the lines before them reports false,
\* with no type and no message.
C17_PromptIffMatchInLastLines ==
    Checked17 =>
        /\ pres.requiresInteraction <=> Hits # {}
        /\ Hits = {} => (pres.type = "undefined" /\ pres.message = "undefined")

\* C17 witness: a text of more than 5 lines whose only match lies before the
\* last 5 lines has been checked, and the result is false.
C17_Witness ==
    /\ Checked17
    /\ Len(ptext) > LastLines
    /\ \E k \in DOMAIN PROMPT_PATTERNS : test(PROMPT_PATTERNS[k], join(EarlyLines))
    /\ Hits = {}
    /\ ~pres.requiresInteraction

\* C18: when several entries of the table match, checkForPrompt returns the
\* type and the message of the entry that comes first in the table, and the
\* result depends on the text alone.
C18_FirstEntryInTableOrder ==
    (Checked17 /\ Hits # {}) =>
        \E k \in Hits :
            /\ \A j \in Hits : k <= j
            /\ pres.type = PROMPT_PATTERNS[k].type
            /\ pres.message = PROMPT_PATTERNS[k].message

\* C18 witness: the last lines match the password entry, the git-password
\* entry and a confirmation entry, and the call has returned "password".
C18_Witness ==
    /\ Checked17
    /\ {1, 5, 9} \subseteq Hits
    /\ pres.type = "password"

Logged == llog \notin {NotLogged, NothingWritten}

\* C19: log truncation.  For an output of n characters logCommand writes the
\* output as it is when n <= 2000; when n > 2000 it writes the first 1000
\* characters, a newline, the literal ...truncated..., a newline and the last
\* 1000 characters, 2017 characters in all.  A logged output is never longer
\* than 2017 characters.
C19_LogTruncation ==
    Logged =>
        /\ Len(lout) <= 2000 => llog = lout
        /\ Len(lout) > 2000 =>
              /\ Len(llog) = 2017
              /\ \A i \in 1..1000 : llog[i] = lout[i]
              /\ llog[1001] = "\n"
              /\ SubSeq(llog, 1002, 1016) =
                    <<".", ".", ".", "t", "r", "u", "n", "c", "a", "t", "e", "d", ".", ".", ".">>
              /\ llog[1017] = "\n"
              /\ \A i \in 1..1000 : llog[1017 + i] = lout[Len(lout) - 1000 + i]
        /\ Len(llog) <= 2017

\* C19 witness: an output of 2001 characters has been logged in 2017
\* characters.
C19_Witness == Logged /\ Len(lout) = 2001 /\ Len(llog) = 2017

\* C20: each launch_background_task call creates a new pane for its task:
\* a call that requests the name of a task returns a pane that it has
\* created, and that pane is none of the panes that earlier calls have
\* returned, be it for the ordinary commands of the directory or for tasks
\* launched before.
C20_TaskPaneIsNew ==
    [][\A p \in Procs :
          (pc[p] # "idle" /\ pc'[p] = "idle" /\ req[p] = "task" /\ ret'[p] \in Addr) =>
              /\ how'[p] = "create"
              /\ ret'[p] \notin given]_vars

\* A step of the call of p in which a tmux command line failed.  Calls are
\* serial, so that a failure counted during a call is a failure of that call.
Failed == moves' > moves
Unmarked(d) == \A s \in Sessions : getDirectoryHash(d) \notin env[s]

\* C21 as the specification states it: a liveness check that fails or finds
\* nothing is treated as "not found" and the call goes on to the creation
\* step.
C21_CheckFailureLeadsToCreation ==
    [][\A p \in Procs :
          (pc[p] = "scan" /\ how[p] = "dropped" /\ pc'[p] # "scan") =>
              pc'[p] = "create"]_vars

\* C21: discovery failures are not errors.  A liveness check that fails, or
\* that lists no pane for the cached address, drops the cache entry and goes
\* on to the marker scan;
\* a marker scan that fails, or finds no marker of the directory, goes on to
\* the creation step.  Neither ends the call with an error.
C21_DiscoveryFallsThrough ==
    [][\A p \in Procs :
          /\ (pc[p] = "check" /\ pc'[p] # "check") =>
                /\ how'[p] # "error"
                /\ (Failed \/ ~StoredPaneListed(cache[p], sess[p])) =>
                      (pc'[p] = "scan" /\ cache'[p] = NoPane)
          /\ (pc[p] = "scan" /\ pc'[p] # "scan") =>
                /\ how'[p] # "error"
                /\ (Failed \/ Unmarked(dir[p])) => pc'[p] = "create"]_vars

\* C21 witness: a call whose liveness check has dropped the cache entry and
\* whose marker scan has failed stands before the creation step.
C21_Witness ==
    \E p \in Procs : pc[p] = "create" /\ how[p] = "dropped" /\ ~Unmarked(dir[p])

CreationSteps == {"create", "getnew", "setenv", "last"}

\* C22: creation failure is fatal to the call.  When a tmux command of the
\* creation step fails (new-window, the query of the new address, the
\* tagging with the marker, last-window), the call ends at once with the
\* error 'Failed to create pane' and returns no pane.
C22_CreationFailureThrows ==
    [][\A p \in Procs :
          (pc[p] \in CreationSteps /\ Failed) =>
              /\ pc'[p] = "idle"
              /\ how'[p] = "error"
              /\ ret'[p] = ErrPane]_vars

\* C22 witness: a call has ended with the error after it had created the
\* window and stored the new pane in the cache (last-window failed).
C22_Witness ==
    \E p \in Procs : pc[p] = "idle" /\ how[p] = "error" /\ cache[p] \in Live

\* The key sequences in the order in which sequential calls issue them: the
\* command of the earlier call, then for each call its command and, if it
\* falls back to Tier 2, its command between the markers.
IssueOrder ==
    [i \in 1..(2 * MaxCalls + 2) |->
        IF i % 2 = 1 THEN <<CmdTok(i \div 2)>> ELSE markedCommand((i \div 2) - 1)]
PlaceOf(text) == CHOOSE i \in DOMAIN IssueOrder : IssueOrder[i] = text

\* The key sequences that have reached the pane, in the order in which the
\* shell takes them: those it has started, each after its prompt, and then
\* those that wait.
StartedLines == SelectSeq(buf, LAMBDA l : Len(l) > 1 /\ l[1] \in Glyphs)
Reached ==
    [i \in 1..Len(StartedLines) |-> SubSeq(StartedLines[i], 2, Len(StartedLines[i]))] \o
    [i \in 1..Len(shell.queue) |-> shell.queue[i].text]

FallsBack == xpc = "sent" /\ xpc' = "resend"
\* The step in which a call returns a result that is not the error result.
ReturnsResult == xpc # "idle" /\ xpc' = "idle" /\ ~xres'.threw /\ xfailed' = "none"
SendsOnceOrTwice ==
    /\ xsent' <= 2
    /\ ReturnsResult => xsent' = (IF xres'.tier = 2 THEN 2 ELSE 1)

\* C24 as the specification states it: a call sends its command once when
\* captureOutput = false or Tier 1 succeeds and twice when it falls back to
\* Tier 2, never more, and it falls back to Tier 2 only when Tier 1 could
\* not locate two prompt lines.
C24_FallbackOnlyWithoutTwoPrompts ==
    [][/\ SendsOnceOrTwice
       /\ FallsBack => Cardinality(PromptSet(Snapshot(buf))) < 2]_vars

\* C24 as amended: a call sends its command once when captureOutput = false
\* or Tier 1 succeeds and twice when it falls back to Tier 2, never more,
\* and it falls back to Tier 2 only when the snapshot holds fewer than two
\* prompt lines or the last two of them lie fewer than three lines apart.
C24_FallbackWithoutSlice ==
    [][/\ SendsOnceOrTwice
       /\ FallsBack =>
             \/ Cardinality(PromptSet(Snapshot(buf))) < 2
             \/ LastPrompt(Snapshot(buf)) - SecondLastPrompt(Snapshot(buf)) < 3]_vars

\* C24 witness: a call for a command that prints nothing has returned
\* through Tier 2 after two sends, in a pane whose prompt carries the glyph.
C24_Witness ==
    /\ Ended
    /\ xres.tier = 2
    /\ xsent = 2
    /\ style.glyph = PromptGlyph
    /\ xcmd = <<>>

\* C25: a task becomes failed only through the timer that its own launch
\* call has armed, in the process of that call.  The task of an earlier
\* process, whose timer is lost, is failed by no operation of this process:
\* without its output file its record stays running.
C25_FailedOnlyByOwnTimer ==
    \A j \in DOMAIN disk :
        /\ disk[j].status = "failed" =>
              /\ disk[j].id \in TaskIds
              /\ tfired[disk[j].id] >= 0
              /\ tpc[disk[j].id] = "end"
        /\ (disk[j].id = EarlierTask.id /\ EarlierTask.outputFile \notin files) =>
              disk[j].status = "running"

\* C25 witness: the record of the earlier process's task is still running,
\* without its output file, after a launch, a check and the timer of the
\* launched task have all written the list.
C25_Witness ==
    /\ \E j \in DOMAIN disk : disk[j].id = EarlierTask.id /\ disk[j].status = "running"
    /\ EarlierTask.outputFile \notin files
    /\ cpc = "idle" /\ checks > 0
    /\ \E t \in TaskIds :
          /\ tpc[t] = "end"
          /\ \E j \in DOMAIN disk : disk[j].id = t /\ disk[j].status = "failed"

\* C26: once launch_background_task has returned the id of a task, the task
\* list on disk holds a record with that id in every later state, whatever
\* the interleaving of the loads and saves of the other operations.
C26_LaunchedRecordStays ==
    \A t \in TaskIds : lpc[t] = "done" => RecordsOf(disk, t) # {}

NoCaptureReturn == xpc = "sent" /\ ~xcapture /\ xpc' = "idle" /\ ~xres'.threw
\* A prompt for a password stands within the last lines of the tail of the
\* pane, as split('\n') counts them.
PromptInTail ==
    \E i \in DOMAIN TailSnapshot(buf) :
        /\ i > Len(TailSnapshot(buf)) - LastLines
        /\ TailSnapshot(buf)[i] = <<"password", ":">>

\* C28: with captureOutput = false a call sends its command once and makes
\* no attempt at a capture between boundaries: it never sends the command
\* between markers, it returns the fixed output 'Command sent (output not
\* captured)' with linesCaptured 0 and exitCode 0, and its
\* requiresInteraction is what the Prompt Detector finds in the tail of the
\* pane.
C28_NoCaptureMode ==
    [][/\ (~xcapture' /\ xid' > 0) => (xsent' <= 1 /\ xpc' \notin {"resend", "marked"})
       /\ NoCaptureReturn =>
             /\ xsent' = 1
             /\ buf' = buf /\ shell' = shell
             /\ xres'.output = <<<<"Command sent (output not captured)">>>>
             /\ xres'.linesCaptuerd = 0
             /\ xres'.exitCode = 0
             /\ xres'.requiresInteraction <=> PromptInTail]_vars

\* C28 witness: a call without capture has returned the fixed output for a
\* command that waits at a password prompt, and reports the prompt.
C28_Witness ==
    /\ Ended
    /\ ~xcapture
    /\ xsent = 1
    /\ xres.output = <<<<"Command sent (output not captured)">>>>
    /\ xres.requiresInteraction
    /\ xres.type = "password"

\* C29: logging failures never reach the caller.  Whether logging is
\* disabled, no log directory can be made or the append fails, the awaited
\* logCommand call does not throw, and the caller returns the result it built
\* around the output: the same result as when the entry is written.
AwaitedLog == lret # NotReturned
C29_LoggingNeverReachesCaller ==
    AwaitedLog =>
        /\ lret.log \in {"disabled", "nodir", "failed", "written"}
        /\ ~lret.threw
        /\ lret.output = lout
        /\ lret.log = "written" <=> Logged
\* C29 witness: the append of an entry with a long output has failed, nothing
\* is written, and the caller returns the whole output.
C29_Witness ==
    /\ AwaitedLog
    /\ lret.log = "failed"
    /\ llog = NothingWritten
    /\ Len(lout) > 2000
    /\ lret.output = lout
    /\ ~lret.threw

\* A step ends the call of p; the call has set the cache entry of its
\* directory: in this step (adoption, line 365), or before its last-window
\* (line 386).
EndsCall(p) == pc[p] # "idle" /\ pc'[p] = "idle"
SetInCall(p) == pc[p] = "last" \/ (cache'[p] # cache[p] /\ cache'[p] # NoPane)

\* C30: cache consistency.  Whenever findOrCreatePane returns a pane, the
\* cache maps the directory to exactly that pane; and an entry is only ever
\* set to a value that the call which sets it returns: a call that has set
\* the entry ends by returning the value of the entry.
C30_CacheConsistency ==
    [][\A p \in Procs :
          /\ (EndsCall(p) /\ ret'[p] \in Addr) => cache'[p] = ret'[p]
          /\ (EndsCall(p) /\ SetInCall(p)) => ret'[p] = cache'[p]]_vars

(***************************************************************************)
(* Claims about concurrent calls, the current pane, blocked commands and   *)
(* the persisted records                                                   *)
(***************************************************************************)
\* C31: no duplicate panes under concurrency.  However the findOrCreatePane
\* calls of two processes with the same working directory interleave, at
\* most one live pane has been created and marked for the directory.
C31_OnePanePerDirectory ==
    \A d \in Dirs : Cardinality(createdFor[d]) <= 1

\* C32: findOrCreatePane never returns the current pane.  A call that has
\* learnt its current pane (display-message, lines 325-332) and returns a
\* pane, by the cache, by the marker scan or by creation, returns another
\* pane than the current one.
C32_NeverReturnsCurrentPane ==
    [][\A p \in Procs :
          (EndsCall(p) /\ ret'[p] \in Addr /\ cur[p] # NoPane) => ret'[p] # cur[p]]_vars

\* The command that runs in the pane has printed its prompt and waits for a
\* line of input.
Blocked == shell.busy /\ shell.asks /\ shell.rest = <<>>

\* C33: once the command sent by a call is blocked waiting for interactive
\* input, the same call sends no further keys to the pane: while the call is
\* in progress and its command is blocked, no step of the call is a
\* send-keys.
C33_NoKeysWhileBlocked ==
    [][(xpc # "idle" /\ Blocked) => xsent' = xsent]_vars

\* C34: a launch_background_task call that has ended with an error response
\* has left the persisted list without a record of its task, and no record
\* of the list is pending.
C34_FailedLaunchLeavesNoRecord ==
    \A t \in TaskIds :
        lpc[t] = "error" =>
            /\ RecordsOf(disk, t) = {}
            /\ \A j \in DOMAIN disk : disk[j].status # "pending"

\* C35: in every state of the persisted task list, for every record: the
\* status is pending, running, completed or failed; endTime is set exactly
\* when the status is completed or failed; and an endTime that is set is not
\* before startTime.
C35_RecordsWellFormed ==
    \A j \in DOMAIN disk :
        /\ disk[j].status \in {"pending", "running", "completed", "failed"}
        /\ disk[j].endTime # 0 <=> disk[j].status \in {"completed", "failed"}
        /\ disk[j].endTime # 0 => disk[j].endTime >= disk[j].startTime
\* C35 witness: the list holds a completed record and a failed record, each
\* with its endTime, the second of a task launched after the clock had moved.
C35_Witness ==
    \E i, j \in DOMAIN disk :
        /\ disk[i].status = "completed" /\ disk[i].endTime # 0
        /\ disk[j].status = "failed" /\ disk[j].endTime > disk[j].startTime
        /\ disk[j].startTime > 0

\* A call has returned a result that holds no output text: the captured
\* output is the empty string, a capture step threw, or nothing was captured.
NoTextCaptured ==
    \/ xres.tier \in {1, 2} /\ xres.exitCode = 0 /\ xres.output = <<<<>>>>
    \/ xres.exitCode = -1
    \/ xres.tier = 0

\* C36: linesCaptuerd is the number of lines of the returned output for
\* every result captured by Tier 1 or Tier 2, and it is 0 exactly when no
\* output text was captured.
C36_LinesCaptured ==
    (Ended /\ ~xres.threw) =>
        /\ (xres.tier \in {1, 2} /\ xres.exitCode = 0) =>
              xres.linesCaptuerd = Len(xres.output)
        /\ xres.linesCaptuerd = 0 <=> NoTextCaptured

====
